---- MODULE Spec2Model ----
(***************************************************************************)
(* Conversation lifecycle and token budget of the chat client:             *)
(*   history.py  ChatHistory     the message ledger and its session file   *)
(*   summary.py  ChatSummarizer  the summarization engine                  *)
(*   main.py     ChatTool        the conversation driver                   *)
(*                                                                         *)
(* Seven specifications share the variables:                                *)
(*   LedgerSpec     the methods of one ChatHistory called in any order,    *)
(*                  with arbitrary arguments                               *)
(*   StoreSpec      one ChatHistory and its history directory over time    *)
(*   ThresholdSpec  should_summarize applied to bounded arguments          *)
(*   ParseSpec      _parse_token_value applied to every bounded text       *)
(*   SummarizeSpec  summarize_messages applied to every bounded input list *)
(*   LoaderSpec     threads calling the global loading animation           *)
(*   Spec           ChatTool's interactive loop                            *)
(***************************************************************************)
EXTENDS Integers, Sequences, FiniteSets, TLC

VARIABLES history_manager, files, now, next_uuid, current_config, summarizer, running, turns, turn, sum_result, store_op, pure_call,
          _global_loader, _loader_lock, callers, threads, calls

\* The state of loading_animation.py: the global loader and the lock that
\* guards it, the threads calling the module's functions, the animation
\* threads alive, and the number of calls begun.
loader_vars == <<_global_loader, _loader_lock, callers, threads, calls>>

vars == <<history_manager, files, now, next_uuid, current_config, summarizer, running, turns, turn, sum_result, store_op, pure_call, loader_vars>>

\* Python's None.
None == [none |-> TRUE]

(***************************************************************************)
(* Bounds of the model.                                                    *)
(***************************************************************************)
\* Longest max_tokens text ParseSpec passes to _parse_token_value.
MaxTokenLen == 4

\* Threads that call into loading_animation.py at the same time.
MaxCallers == 2

\* Calls of the functions of loading_animation.py in one run.
MaxCalls == 3

\* len(LoadingAnimation.FRAMES)
NFrames == 10

\* Longest ledger LedgerSpec builds, stored messages included.
MaxMsgs == 3

\* Longest message list SummarizeSpec passes to summarize_messages.
MaxInput == 4

\* Turns of the interactive loop in one run.
MaxTurns == 2

\* Last tick of the clock (one tick is one second of datetime.now()).
MaxTime == 1

\* Ticks in one calendar day: the %y%m%d part of a file name changes when
\* the clock passes a multiple of it.
TicksPerDay == 1

\* Sessions one run may generate.
MaxSessions == 2

(***************************************************************************)
(* Text.  A string is a sequence of characters.  "x" stands for a span the *)
(* tokenizer rejects (a special token), " " for white space.               *)
(***************************************************************************)
Max(a, b) == IF a >= b THEN a ELSE b

\* The messages held by the session files of a store.
RECURSIVE StoredMessages(_)
StoredMessages(fs) == IF DOMAIN fs = {} THEN 0 ELSE LET k == CHOOSE k \in DOMAIN fs : TRUE IN (IF "messages" \in DOMAIN fs[k] THEN Len(fs[k].messages) ELSE 0) + StoredMessages([j \in DOMAIN fs \ {k} |-> fs[j]])

\* Sum of f[i] over 1..n.
RECURSIVE SumTo(_, _)
SumTo(f, n) == IF n = 0 THEN 0 ELSE f[n] + SumTo(f, n - 1)

\* sum(msg["tokens"] for msg in msgs)
SumTokens(msgs) == SumTo([i \in 1..Len(msgs) |-> msgs[i].tokens], Len(msgs))

\* str.strip(): leading and trailing white space removed.
RECURSIVE LStrip(_)
LStrip(s) == IF s # <<>> /\ Head(s) = " " THEN LStrip(Tail(s)) ELSE s

RECURSIVE RStrip(_)
RStrip(s) == IF s # <<>> /\ s[Len(s)] = " " THEN RStrip(SubSeq(s, 1, Len(s) - 1)) ELSE s

Strip(s) == RStrip(LStrip(s))

\* The tokenizer raises on text that holds a special token.
EncoderRaises(text) == \E i \in 1..Len(text) : text[i] = "x"

\* len(self.tokenizer.encode(text)) when it does not raise: the tokenizer
\* is a collaborator; here it yields one token per two characters, rounded up.
EncodeLen(text) == (Len(text) + 1) \div 2

\* ChatHistory._count_tokens
_count_tokens(text) == IF EncoderRaises(text) THEN Len(text) \div 4 + 1 ELSE EncodeLen(text)

(***************************************************************************)
(* history.py: ChatHistory.  A ledger h is the object's fields.            *)
(***************************************************************************)
\* f"msg_{len(self.messages):03d}": the decimal rendering is one-to-one.
MsgId(n) == <<"msg", n>>

\* f"summary_{datetime.now().strftime('%Y%m%d_%H%M%S')}": the second.
SummaryId(t) == <<"summary", t>>

\* f"sess_{timestamp}_{unique_id}": the second and a fresh uuid4 prefix.
_generate_session_id(t, uuid) == <<"sess", t, uuid>>

\* datetime.now().strftime("%y%m%d")
DateStr(t) == t \div TicksPerDay

\* ChatHistory.__init__
ChatHistory(config_id, t, uuid) == [config_id |-> config_id, session_id |-> _generate_session_id(t, uuid), messages |-> <<>>, total_tokens |-> 0, model |-> "deepseek-chat", created_at |-> t]

\* The message dict add_message builds.
Message(id, type, t, role, content, tokens) == [id |-> id, type |-> type, timestamp |-> t, role |-> role, content |-> content, tokens |-> tokens]

\* ChatHistory.add_message
add_message(h, role, content, message_type, t) ==
    LET tokens == _count_tokens(content)
        message == Message(MsgId(Len(h.messages)), message_type, t, role, content, tokens)
    IN  [h EXCEPT !.messages = Append(h.messages, message), !.total_tokens = h.total_tokens + tokens]

\* ChatHistory.get_messages_for_api
get_messages_for_api(h) == [i \in 1..Len(h.messages) |-> [role |-> h.messages[i].role, content |-> h.messages[i].content]]

IsSystemRole(m) == m.role = "system"

NotSystemRole(m) == m.role # "system"

\* remove_old_messages without its last statement (total_tokens not recomputed).
remove_old_messages_stale_total(h, keep_recent) ==
    LET system_messages == SelectSeq(h.messages, IsSystemRole)
        non_system_messages == SelectSeq(h.messages, NotSystemRole)
        remove_count == Len(non_system_messages) - keep_recent
        kept_messages == SubSeq(non_system_messages, remove_count + 1, Len(non_system_messages))
    IN  IF Len(h.messages) <= keep_recent \/ Len(non_system_messages) <= keep_recent
        THEN h
        ELSE [h EXCEPT !.messages = system_messages \o kept_messages]

\* ChatHistory.remove_old_messages: the ledger afterwards.
remove_old_messages(h, keep_recent) ==
    LET system_messages == SelectSeq(h.messages, IsSystemRole)
        non_system_messages == SelectSeq(h.messages, NotSystemRole)
        remove_count == Len(non_system_messages) - keep_recent
        kept_messages == SubSeq(non_system_messages, remove_count + 1, Len(non_system_messages))
        new_messages == system_messages \o kept_messages
    IN  IF Len(h.messages) <= keep_recent \/ Len(non_system_messages) <= keep_recent
        THEN h
        ELSE [h EXCEPT !.messages = new_messages, !.total_tokens = SumTokens(new_messages)]

\* ChatHistory._get_history_filename
_get_history_filename(h, t) == <<DateStr(t), h.config_id, h.session_id>>

\* The dict save_to_file dumps.
HistoryData(h) == [model |-> h.model, created_at |-> h.created_at, session_id |-> h.session_id, config_id |-> h.config_id, total_tokens |-> h.total_tokens, messages |-> h.messages]

\* A save that writes nothing and reports success.
save_to_file_nothing(fs, h, t, write_ok) == fs

\* ChatHistory.save_to_file: the store afterwards; write_ok is whether
\* open() and json.dump succeed (a failure is caught and reported).
save_to_file(fs, h, t, write_ok) == IF write_ok THEN (_get_history_filename(h, t) :> HistoryData(h)) @@ fs ELSE fs

\* ChatHistory.start_new_session: the ledger afterwards.
start_new_session(h, t, uuid) == [h EXCEPT !.session_id = _generate_session_id(t, uuid), !.messages = <<>>, !.total_tokens = 0, !.created_at = t]

\* A restart that saves the current session whether or not it has messages.
start_new_session_files_always(fs, h, t, write_ok) == save_to_file(fs, h, t, write_ok)

\* ChatHistory.start_new_session: the store afterwards.
start_new_session_files(fs, h, t, write_ok) == IF h.messages # <<>> THEN save_to_file(fs, h, t, write_ok) ELSE fs

\* The text of a session id, f"sess_{timestamp}_{unique_id}", and of a file
\* name, f"{date_str}-{self.config_id}-{self.session_id}.json", as the
\* sequence of their parts.
SessionText(sid) == <<sid[1], "_", ToString(sid[2]), "_", ToString(sid[3])>>

FilenameText(name) == <<ToString(name[1]), "-", name[2], "-">> \o SessionText(name[3]) \o <<".json">>

\* session_id_or_filepath in filename
Contains(sub, text) == \E i \in 1..(Len(text) - Len(sub) + 1) : SubSeq(text, i, i + Len(sub) - 1) = sub

\* session_id_or_filepath.endswith('.json')
EndsWithJson(ident) == ident # <<>> /\ ident[Len(ident)] = ".json"

\* A file json.load cannot read.
Corrupt == [corrupt |-> TRUE]

\* history_data.get(key, default)
Get(data, key, default) == IF key \in DOMAIN data THEN data[key] ELSE default

\* A lookup that only accepts a complete file name.
LoadCandidatesExact(fs, ident) == {k \in DOMAIN fs : FilenameText(k) = ident}

\* ChatHistory.load_from_file, lookup: the files the call may open.  For a
\* session id these are the files whose name contains it (os.listdir yields
\* them in no defined order and the first match is taken); for a path, the
\* file of that name.
LoadCandidates(fs, ident) == IF EndsWithJson(ident) THEN {k \in DOMAIN fs : FilenameText(k) = ident} ELSE {k \in DOMAIN fs : Contains(ident, FilenameText(k))}

\* The result of a load: whether it returned True, and the ledger afterwards.
Loaded(ok, h) == [ok |-> ok, h |-> h]

\* A load that has set the model before it finds the content malformed.
load_from_file_partial(h, data, t, uuid) ==
    IF data = Corrupt THEN Loaded(FALSE, [h EXCEPT !.model = "deepseek-chat", !.total_tokens = 0])
    ELSE Loaded(TRUE, [h EXCEPT !.model = Get(data, "model", "deepseek-chat"), !.created_at = Get(data, "created_at", t), !.session_id = Get(data, "session_id", _generate_session_id(t, uuid)), !.config_id = Get(data, "config_id", h.config_id), !.total_tokens = Get(data, "total_tokens", 0), !.messages = Get(data, "messages", <<>>)])

\* ChatHistory.load_from_file, after the lookup: data is the content of the
\* file opened.
load_from_file(h, data, t, uuid) ==
    IF data = Corrupt THEN Loaded(FALSE, h)
    ELSE Loaded(TRUE, [h EXCEPT !.model = Get(data, "model", "deepseek-chat"), !.created_at = Get(data, "created_at", t), !.session_id = Get(data, "session_id", _generate_session_id(t, uuid)),
                              !.config_id = Get(data, "config_id", h.config_id), !.total_tokens = Get(data, "total_tokens", 0), !.messages = Get(data, "messages", <<>>)])

(***************************************************************************)
(* summary.py: ChatSummarizer.                                             *)
(***************************************************************************)
\* t('summary.context_prefix'): the fixed marker put before a summary.
ContextPrefix == <<"P">>

\* msg.get("role") == "system" and msg.get("type") != "summary"
IsOriginalSystem(m) == m.role = "system" /\ m.type # "summary"

\* A partition that leaves the original system messages among the rest.
IsRestEvery(m) == m = m

\* msg.get("role") != "system" or msg.get("type") == "summary"
IsRest(m) == m.role # "system" \/ m.type = "summary"

NotSummaryType(m) == m.type # "summary"

\* ChatSummarizer._format_messages_for_summary: one "[timestamp] role:
\* content" entry per message, in order; summary-type messages are skipped.
\* The text is empty exactly when no entry is left.
_format_messages_for_summary(msgs) ==
    LET shown == SelectSeq(msgs, NotSummaryType)
    IN  [i \in 1..Len(shown) |-> [timestamp |-> shown[i].timestamp, role |-> shown[i].role, content |-> shown[i].content]]

\* A ratio that takes an empty original for one token.
CompressionRatioOfOne(summary_tokens, original_tokens) == (2000 * summary_tokens + Max(original_tokens, 1)) \div (2 * Max(original_tokens, 1))

\* round(summary_tokens / original_tokens, 3) if original_tokens > 0 else 0,
\* in thousandths.
CompressionRatio(summary_tokens, original_tokens) == IF original_tokens > 0 THEN (2000 * summary_tokens + original_tokens) \div (2 * original_tokens) ELSE 0

\* ChatSummarizer._create_summary_message
_create_summary_message(summary_content, summarized_messages, t, model) ==
    LET original_tokens == SumTokens(summarized_messages)
        summarized_ids == [i \in 1..Len(summarized_messages) |-> summarized_messages[i].id]
        summary_tokens == Len(summary_content) \div 4 + 1
    IN  [id |-> SummaryId(t), type |-> "summary", role |-> "system", content |-> ContextPrefix \o summary_content, timestamp |-> t, tokens |-> summary_tokens,
         summary_metadata |-> [trigger_reason |-> "token_threshold_reached", original_tokens |-> original_tokens, summarized_tokens |-> summary_tokens, summarized_message_ids |-> summarized_ids, summary_model |-> model, compression_ratio |-> CompressionRatio(summary_tokens, original_tokens)]]

\* non_system_messages[:-keep_recent] if keep_recent > 0 else non_system_messages
MessagesToSummarize(rest, keep_recent) == IF keep_recent > 0 THEN SubSeq(rest, 1, Len(rest) - keep_recent) ELSE rest

\* A slice that keeps one message fewer: non_system_messages[-keep_recent + 1:].
MessagesToKeepShort(rest, keep_recent) == IF keep_recent > 1 THEN SubSeq(rest, Max(1, Len(rest) - keep_recent + 2), Len(rest)) ELSE <<>>

\* A kept tail rebuilt from role and content, its token counts lost.
MessagesToKeepUncounted(rest, keep_recent) ==
    IF keep_recent > 0
    THEN LET tail == SubSeq(rest, Max(1, Len(rest) - keep_recent + 1), Len(rest)) IN [i \in 1..Len(tail) |-> [tail[i] EXCEPT !.tokens = 0]]
    ELSE <<>>

\* non_system_messages[-keep_recent:] if keep_recent > 0 else []
MessagesToKeep(rest, keep_recent) == IF keep_recent > 0 THEN SubSeq(rest, Max(1, Len(rest) - keep_recent + 1), Len(rest)) ELSE <<>>

\* What a call returns and whether it reached the model.
SummarizeResult(summary, msgs, called, transcript) == [summary |-> summary, messages |-> msgs, called |-> called, transcript |-> transcript]

\* The first guard of summarize_messages.
TooFewMessages(messages, keep_recent) == Len(messages) <= keep_recent + 1

\* What the completion model does with a request: it raises, or returns text.
Raises == [raises |-> TRUE, text |-> <<>>]

Returns(text) == [raises |-> FALSE, text |-> text]

\* summarize_messages without the check of the stripped summary text.
summarize_messages_unchecked(messages, keep_recent, reply, t, model) ==
    LET system_messages == SelectSeq(messages, IsOriginalSystem)
        non_system_messages == SelectSeq(messages, IsRest)
        messages_to_summarize == MessagesToSummarize(non_system_messages, keep_recent)
        messages_to_keep == MessagesToKeep(non_system_messages, keep_recent)
        conversation_text == _format_messages_for_summary(messages_to_summarize)
        summary_message == _create_summary_message(Strip(reply.text), messages_to_summarize, t, model)
    IN  IF TooFewMessages(messages, keep_recent) THEN SummarizeResult(None, messages, FALSE, <<>>)
        ELSE IF Len(non_system_messages) <= keep_recent THEN SummarizeResult(None, messages, FALSE, <<>>)
        ELSE IF messages_to_summarize = <<>> THEN SummarizeResult(None, messages, FALSE, <<>>)
        ELSE IF conversation_text = <<>> THEN SummarizeResult(None, messages, FALSE, <<>>)
        ELSE IF reply.raises THEN SummarizeResult(None, messages, TRUE, conversation_text)
        ELSE SummarizeResult(summary_message, system_messages \o <<summary_message>> \o messages_to_keep, TRUE, conversation_text)

\* ChatSummarizer.summarize_messages(messages, keep_recent).  reply is what
\* the completion model does with the one request made.
summarize_messages(messages, keep_recent, reply, t, model) ==
    LET system_messages == SelectSeq(messages, IsOriginalSystem)
        non_system_messages == SelectSeq(messages, IsRest)
        messages_to_summarize == MessagesToSummarize(non_system_messages, keep_recent)
        messages_to_keep == MessagesToKeep(non_system_messages, keep_recent)
        conversation_text == _format_messages_for_summary(messages_to_summarize)
        summary_content == Strip(reply.text)
        summary_message == _create_summary_message(summary_content, messages_to_summarize, t, model)
    IN  IF TooFewMessages(messages, keep_recent) THEN SummarizeResult(None, messages, FALSE, <<>>)
        ELSE IF Len(non_system_messages) <= keep_recent THEN SummarizeResult(None, messages, FALSE, <<>>)
        ELSE IF messages_to_summarize = <<>> THEN SummarizeResult(None, messages, FALSE, <<>>)
        ELSE IF conversation_text = <<>> THEN SummarizeResult(None, messages, FALSE, <<>>)
        ELSE IF reply.raises THEN SummarizeResult(None, messages, TRUE, conversation_text)
        ELSE IF summary_content = <<>> THEN SummarizeResult(None, messages, TRUE, conversation_text)
        ELSE SummarizeResult(summary_message, system_messages \o <<summary_message>> \o messages_to_keep, TRUE, conversation_text)

\* A threshold ratio is a fraction <<numerator, denominator>>; the default of
\* should_summarize is 0.8.
DefaultRatio == <<4, 5>>

\* A comparison that leaves the threshold itself out.
should_summarize_above(total_tokens, max_tokens, threshold_ratio) == threshold_ratio[2] * total_tokens > max_tokens * threshold_ratio[1]

\* ChatSummarizer.should_summarize(total_tokens, max_tokens, threshold_ratio):
\* total_tokens >= (max_tokens * threshold_ratio).
should_summarize_ratio(total_tokens, max_tokens, threshold_ratio) == threshold_ratio[2] * total_tokens >= max_tokens * threshold_ratio[1]

\* ChatSummarizer.should_summarize with the default threshold_ratio.
should_summarize(total_tokens, max_tokens) == should_summarize_ratio(total_tokens, max_tokens, DefaultRatio)

\* An install that replaces the messages and keeps the old total.
InstallSummaryStaleTotal(h, new_messages) == [h EXCEPT !.messages = new_messages]

\* The install both callers make of a successful result:
\* messages = new_messages; total_tokens = sum(msg.get('tokens', 0) ...).
InstallSummary(h, new_messages) == [h EXCEPT !.messages = new_messages, !.total_tokens = SumTokens(new_messages)]

(***************************************************************************)
(* Inputs shared by the specifications.                                    *)
(***************************************************************************)
Roles == {"system", "user", "assistant"}

\* Message contents a caller passes: the empty text (no tokens) and a text
\* the tokenizer rejects (counted by the fallback).
Contents == {<<>>, <<"x", "a", "a", "a">>}

\* What the completion model may answer to a summarization request.
SummaryReplies == {Raises, Returns(<<>>), Returns(<<" ">>), Returns(<<" ", "s", "s", "s", "s">>)}

\* keep_recent values a direct caller passes (the drivers pass 3).
KeepRecents == {0, 1, 2, 3}

\* sum_result: the summarize_messages call the last step made, if it made one.
SumCall(before, keep_recent, reply, result) == [before |-> before, keep_recent |-> keep_recent, reply |-> reply, result |-> result]

\* The file of an operation that opened none.
NoFile == <<>>

\* store_op: the storage call the last step made, if it made one: the call,
\* what it returned, the identifier it was given, the file it used and
\* whether the step before was a save that succeeded.
StoreOp(op, ok, ident, file, after_save) == [op |-> op, ok |-> ok, ident |-> ident, file |-> file, after_save |-> after_save]

\* Whether the last step made a save that succeeded.
JustSaved(op) == op # None /\ op.op = "save" /\ op.ok

\* A second passes.
Tick ==
    /\ now < MaxTime
    /\ now' = now + 1
    /\ sum_result' = None
    /\ turn' = None
    /\ store_op' = None
    /\ UNCHANGED <<history_manager, files, next_uuid, current_config, summarizer, running, turns, pure_call, loader_vars>>

(***************************************************************************)
(* loading_animation.py: the global loading animation.                     *)
(***************************************************************************)
\* Threads that call the module's functions.
Callers == 1..MaxCallers

\* The identity of a calling thread and of an animation thread.
CallerId(c) == [caller |-> c]

Thread(t) == [thread |-> t]

\* Messages passed to start_loading and update_loading_message.
Messages == {"m1", "m2"}

\* A lock is the set of the threads that hold it.
CanAcquireAlways(lock) == TRUE

\* threading.Lock: acquire is granted when nobody holds the lock.
CanAcquire(lock) == lock = {}

\* LoadingAnimation.__init__
LoadingAnimation == [_thread |-> None, _stop_event |-> FALSE, _message |-> "", _lock |-> {}]

\* Thread.is_alive()
is_alive(th) == th.thread \in DOMAIN threads

\* threading.Thread(): the new thread is told from the threads alive.
NewThread == CHOOSE t \in 0..Cardinality(DOMAIN threads) : t \notin DOMAIN threads

\* A calling thread outside the module.
Idle == [pc |-> "idle", fn |-> "", message |-> "", clear_line |-> FALSE]

\* The module just imported: no loader, the lock free, no thread inside.
LoaderIdle ==
    /\ _global_loader = None
    /\ _loader_lock = {}
    /\ callers = [c \in Callers |-> Idle]
    /\ threads = <<>>
    /\ calls = 0

\* The functions of the module with the arguments a call can pass.
LoaderCalls ==
    {[pc |-> "acquire", fn |-> "start_loading", message |-> m, clear_line |-> FALSE] : m \in Messages}
        \cup {[pc |-> "acquire", fn |-> "update_loading_message", message |-> m, clear_line |-> FALSE] : m \in Messages}
        \cup {[pc |-> "acquire", fn |-> "stop_loading", message |-> "", clear_line |-> b] : b \in BOOLEAN}

\* The caller moves to another line of the function it runs.
Goto(c, pc) == [callers EXCEPT ![c].pc = pc]

\* What the rest of the program keeps while the loader's threads run.
LoaderFrame == UNCHANGED <<history_manager, files, now, next_uuid, current_config, summarizer, running, turns, turn, sum_result, store_op, pure_call>>

\* A thread calls start_loading, stop_loading or update_loading_message.
Call(c) ==
    /\ callers[c].pc = "idle"
    /\ calls < MaxCalls
    /\ calls' = calls + 1
    /\ \E call \in LoaderCalls : callers' = [callers EXCEPT ![c] = call]
    /\ UNCHANGED <<_global_loader, _loader_lock, threads>>
    /\ LoaderFrame

\* with _loader_lock:
Acquire(c) ==
    /\ callers[c].pc = "acquire"
    /\ CanAcquire(_loader_lock)
    /\ _loader_lock' = _loader_lock \cup {CallerId(c)}
    /\ callers' = Goto(c, "body")
    /\ UNCHANGED <<_global_loader, threads, calls>>
    /\ LoaderFrame

\* The body of the entry point up to the call of the loader's method.
Body(c) ==
    /\ callers[c].pc = "body"
    /\ IF callers[c].fn = "start_loading"
       THEN /\ _global_loader' = IF _global_loader = None THEN LoadingAnimation ELSE _global_loader
            /\ callers' = Goto(c, "start")
       ELSE /\ UNCHANGED _global_loader
            /\ callers' = Goto(c, IF _global_loader = None THEN "release"
                                  ELSE IF callers[c].fn = "stop_loading" THEN "stop" ELSE "update_lock")
    /\ UNCHANGED <<_loader_lock, threads, calls>>
    /\ LoaderFrame

\* LoadingAnimation.start: return if the animation already runs.
Start(c) ==
    /\ callers[c].pc = "start"
    /\ callers' = Goto(c, IF _global_loader._thread # None /\ is_alive(_global_loader._thread) THEN "release" ELSE "start_lock")
    /\ UNCHANGED <<_global_loader, _loader_lock, threads, calls>>
    /\ LoaderFrame

\* A caller at line pc takes self._lock and moves to line next.
TakeLock(c, pc, next) ==
    /\ callers[c].pc = pc
    /\ CanAcquire(_global_loader._lock)
    /\ _global_loader' = [_global_loader EXCEPT !._lock = @ \cup {CallerId(c)}]
    /\ callers' = Goto(c, next)
    /\ UNCHANGED <<_loader_lock, threads, calls>>
    /\ LoaderFrame

\* LoadingAnimation.start: with self._lock:
StartLock(c) == TakeLock(c, "start_lock", "start_set")

\* LoadingAnimation.start: set the message and clear the stop event.
StartSet(c) ==
    /\ callers[c].pc = "start_set"
    /\ _global_loader' = [_global_loader EXCEPT !._message = callers[c].message, !._stop_event = FALSE, !._lock = @ \ {CallerId(c)}]
    /\ callers' = Goto(c, "start_thread")
    /\ UNCHANGED <<_loader_lock, threads, calls>>
    /\ LoaderFrame

\* LoadingAnimation.start: create and start the animation thread.
StartThread(c) ==
    /\ callers[c].pc = "start_thread"
    /\ LET t == NewThread
       IN  /\ _global_loader' = [_global_loader EXCEPT !._thread = Thread(t)]
           /\ threads' = [u \in DOMAIN threads \cup {t} |->
                             IF u = t THEN [pc |-> "check", frame_index |-> 0] ELSE threads[u]]
    /\ callers' = Goto(c, "release")
    /\ UNCHANGED <<_loader_lock, calls>>
    /\ LoaderFrame

\* LoadingAnimation.stop: set the stop event if the animation runs.
Stop(c) ==
    /\ callers[c].pc = "stop"
    /\ IF _global_loader._thread # None /\ is_alive(_global_loader._thread)
       THEN /\ _global_loader' = [_global_loader EXCEPT !._stop_event = TRUE]
            /\ callers' = Goto(c, "stop_join")
       ELSE /\ UNCHANGED _global_loader
            /\ callers' = Goto(c, "stop_clear")
    /\ UNCHANGED <<_loader_lock, threads, calls>>
    /\ LoaderFrame

\* LoadingAnimation.stop: self._thread.join(timeout=1.0) returns when the
\* thread has ended or when the second has passed.
StopJoin(c) ==
    /\ callers[c].pc = "stop_join"
    /\ callers' = Goto(c, "stop_clear")
    /\ UNCHANGED <<_global_loader, _loader_lock, threads, calls>>
    /\ LoaderFrame

\* LoadingAnimation.stop: if clear_line:
StopClear(c) ==
    /\ callers[c].pc = "stop_clear"
    /\ callers' = Goto(c, IF callers[c].clear_line THEN "stop_lock" ELSE "release")
    /\ UNCHANGED <<_global_loader, _loader_lock, threads, calls>>
    /\ LoaderFrame

\* LoadingAnimation.stop: with self._lock:
StopLock(c) == TakeLock(c, "stop_lock", "stop_write")

\* LoadingAnimation.stop: blank the line.
StopWrite(c) ==
    /\ callers[c].pc = "stop_write"
    /\ _global_loader' = [_global_loader EXCEPT !._lock = @ \ {CallerId(c)}]
    /\ callers' = Goto(c, "release")
    /\ UNCHANGED <<_loader_lock, threads, calls>>
    /\ LoaderFrame

\* LoadingAnimation.update_message: with self._lock:
UpdateLock(c) == TakeLock(c, "update_lock", "update_set")

\* LoadingAnimation.update_message: set the message.
UpdateSet(c) ==
    /\ callers[c].pc = "update_set"
    /\ _global_loader' = [_global_loader EXCEPT !._message = callers[c].message, !._lock = @ \ {CallerId(c)}]
    /\ callers' = Goto(c, "release")
    /\ UNCHANGED <<_loader_lock, threads, calls>>
    /\ LoaderFrame

\* The entry point leaves its with block and returns.
Release(c) ==
    /\ callers[c].pc = "release"
    /\ _loader_lock' = _loader_lock \ {CallerId(c)}
    /\ callers' = [callers EXCEPT ![c] = Idle]
    /\ UNCHANGED <<_global_loader, threads, calls>>
    /\ LoaderFrame

\* _animate: while not self._stop_event.is_set(); the thread ends when set.
AnimCheck(t) ==
    /\ threads[t].pc = "check"
    /\ threads' = IF _global_loader._stop_event
                  THEN [u \in DOMAIN threads \ {t} |-> threads[u]]
                  ELSE [threads EXCEPT ![t].pc = "lock"]
    /\ UNCHANGED <<_global_loader, _loader_lock, callers, calls>>
    /\ LoaderFrame

\* _animate: with self._lock:
AnimLock(t) ==
    /\ threads[t].pc = "lock"
    /\ CanAcquire(_global_loader._lock)
    /\ _global_loader' = [_global_loader EXCEPT !._lock = @ \cup {Thread(t)}]
    /\ threads' = [threads EXCEPT ![t].pc = "write"]
    /\ UNCHANGED <<_loader_lock, callers, calls>>
    /\ LoaderFrame

\* _animate: write the frame, leave the with block, advance the frame index.
AnimWrite(t) ==
    /\ threads[t].pc = "write"
    /\ _global_loader' = [_global_loader EXCEPT !._lock = @ \ {Thread(t)}]
    /\ threads' = [threads EXCEPT ![t].pc = "wait", ![t].frame_index = (@ + 1) % NFrames]
    /\ UNCHANGED <<_loader_lock, callers, calls>>
    /\ LoaderFrame

\* _animate: self._stop_event.wait(self.interval) returns.
AnimWait(t) ==
    /\ threads[t].pc = "wait"
    /\ threads' = [threads EXCEPT ![t].pc = "check"]
    /\ UNCHANGED <<_global_loader, _loader_lock, callers, calls>>
    /\ LoaderFrame

LoaderInit ==
    /\ history_manager = None
    /\ files = <<>>
    /\ now = 0
    /\ next_uuid = 0
    /\ current_config = None
    /\ summarizer = FALSE
    /\ running = TRUE
    /\ turns = 0
    /\ turn = None
    /\ sum_result = None
    /\ store_op = None
    /\ pure_call = None
    /\ LoaderIdle

LoaderNext ==
    \/ \E c \in Callers : Call(c)
    \/ \E c \in Callers : Acquire(c)
    \/ \E c \in Callers : Body(c)
    \/ \E c \in Callers : Start(c)
    \/ \E c \in Callers : StartLock(c)
    \/ \E c \in Callers : StartSet(c)
    \/ \E c \in Callers : StartThread(c)
    \/ \E c \in Callers : Stop(c)
    \/ \E c \in Callers : StopJoin(c)
    \/ \E c \in Callers : StopClear(c)
    \/ \E c \in Callers : StopLock(c)
    \/ \E c \in Callers : StopWrite(c)
    \/ \E c \in Callers : UpdateLock(c)
    \/ \E c \in Callers : UpdateSet(c)
    \/ \E c \in Callers : Release(c)
    \/ \E t \in DOMAIN threads : AnimCheck(t)
    \/ \E t \in DOMAIN threads : AnimLock(t)
    \/ \E t \in DOMAIN threads : AnimWrite(t)
    \/ \E t \in DOMAIN threads : AnimWait(t)

LoaderSpec == LoaderInit /\ [][LoaderNext]_vars

(***************************************************************************)
(* LedgerSpec: one ChatHistory, its methods called in any order.           *)
(***************************************************************************)
LedgerInit ==
    /\ history_manager = ChatHistory("Prompt_000", 0, 0)
    /\ files = <<>>
    /\ now = 0
    /\ next_uuid = 1
    /\ current_config = None
    /\ summarizer = FALSE
    /\ running = FALSE
    /\ turns = 0
    /\ turn = None
    /\ sum_result = None
    /\ store_op = None
    /\ pure_call = None
    /\ LoaderIdle

\* history.add_message(role, content)
LedgerAdd ==
    /\ Len(history_manager.messages) + StoredMessages(files) < MaxMsgs
    /\ \E role \in Roles, content \in Contents : history_manager' = add_message(history_manager, role, content, "original", now)
    /\ store_op' = None
    /\ UNCHANGED <<files, now, next_uuid, current_config, summarizer, running, turns, turn, sum_result, pure_call, loader_vars>>

\* history.remove_old_messages(keep_recent)
LedgerRemoveOld ==
    /\ \E keep_recent \in KeepRecents : history_manager' = remove_old_messages(history_manager, keep_recent)
    /\ store_op' = None
    /\ UNCHANGED <<files, now, next_uuid, current_config, summarizer, running, turns, turn, sum_result, pure_call, loader_vars>>

\* history.start_new_session()
LedgerNewSession ==
    /\ next_uuid < MaxSessions
    /\ \E write_ok \in BOOLEAN :
          /\ files' = start_new_session_files(files, history_manager, now, write_ok)
          /\ store_op' = StoreOp("start_new_session", write_ok, <<>>, _get_history_filename(history_manager, now), FALSE)
    /\ history_manager' = start_new_session(history_manager, now, next_uuid)
    /\ next_uuid' = next_uuid + 1
    /\ UNCHANGED <<now, current_config, summarizer, running, turns, turn, sum_result, pure_call, loader_vars>>

LedgerNext == LedgerAdd \/ LedgerRemoveOld \/ LedgerNewSession

LedgerSpec == LedgerInit /\ [][LedgerNext]_vars

(***************************************************************************)
(* StoreSpec: one ChatHistory and its history directory: messages are      *)
(* added, the ledger is saved and loaded, and time passes.                 *)
(***************************************************************************)
\* A session file another run left in the directory: its total_tokens key is
\* missing.
ForeignSession == _generate_session_id(0, 9)

ForeignName == <<DateStr(0), "Prompt_000", ForeignSession>>

ForeignData == [model |-> "deepseek-chat", created_at |-> 0, session_id |-> ForeignSession, config_id |-> "Prompt_000", messages |-> <<Message(MsgId(0), "original", 0, "user", <<"x", "a", "a", "a">>, 2)>>]

\* The directory at the start: empty, or holding a foreign file, readable or not.
InitialStores == {<<>>, ForeignName :> ForeignData, ForeignName :> Corrupt}

\* What a caller passes to load_from_file: the session id of the ledger or of
\* a stored file, a part of a session id, the path of a stored file, or the
\* id of no session.
LoadIdents(h, fs) == {SessionText(h.session_id), <<"sess", "_">>, <<"none">>} \cup {SessionText(k[3]) : k \in DOMAIN fs} \cup {FilenameText(k) : k \in DOMAIN fs}

StoreInit ==
    /\ history_manager = ChatHistory("Prompt_000", 0, 0)
    /\ files \in InitialStores
    /\ now = 0
    /\ next_uuid = 1
    /\ current_config = None
    /\ summarizer = FALSE
    /\ running = FALSE
    /\ turns = 0
    /\ turn = None
    /\ sum_result = None
    /\ store_op = None
    /\ pure_call = None
    /\ LoaderIdle

\* history.add_message('user', content)
StoreAdd ==
    /\ Len(history_manager.messages) + StoredMessages(files) < MaxMsgs
    /\ history_manager' = add_message(history_manager, "user", <<"x", "a", "a", "a">>, "original", now)
    /\ store_op' = None
    /\ UNCHANGED <<files, now, next_uuid, current_config, summarizer, running, turns, turn, sum_result, pure_call, loader_vars>>

\* history.save_to_file()
StoreSave ==
    /\ \E write_ok \in BOOLEAN :
          /\ files' = save_to_file(files, history_manager, now, write_ok)
          /\ store_op' = StoreOp("save", write_ok, <<>>, _get_history_filename(history_manager, now), FALSE)
    /\ UNCHANGED <<history_manager, now, next_uuid, current_config, summarizer, running, turns, turn, sum_result, pure_call, loader_vars>>

\* history.load_from_file(ident)
StoreLoad ==
    /\ \E ident \in LoadIdents(history_manager, files) :
          LET candidates == LoadCandidates(files, ident)
          IN  IF candidates = {}
              THEN /\ history_manager' = history_manager
                   /\ store_op' = StoreOp("load", FALSE, ident, NoFile, JustSaved(store_op))
              ELSE \E k \in candidates :
                      LET l == load_from_file(history_manager, files[k], now, next_uuid)
                      IN  /\ history_manager' = l.h
                          /\ store_op' = StoreOp("load", l.ok, ident, k, JustSaved(store_op))
    /\ UNCHANGED <<files, now, next_uuid, current_config, summarizer, running, turns, turn, sum_result, pure_call, loader_vars>>

StoreNext == StoreAdd \/ StoreSave \/ StoreLoad \/ Tick

StoreSpec == StoreInit /\ [][StoreNext]_vars

(***************************************************************************)
(* ThresholdSpec: should_summarize applied once, by a caller that holds a  *)
(* ledger, to every argument of the sets below.                            *)
(***************************************************************************)
\* Token totals, budgets and ratios (0.8, 0.5 and 1.0) a caller passes.
Totals == (0..8) \cup {799, 800, 801}

Budgets == {0, 5, 7, 1000}

Ratios == {DefaultRatio, <<1, 2>>, <<1, 1>>}

\* pure_call: a call of a function, its arguments, and its result once made.
PureCall(fn, args, done, result) == [fn |-> fn, args |-> args, done |-> done, result |-> result]

ThresholdInit ==
    /\ \E content \in Contents : history_manager = add_message(ChatHistory("Prompt_000", 0, 0), "user", content, "original", 0)
    /\ files = <<>>
    /\ now = 0
    /\ next_uuid = 1
    /\ current_config = None
    /\ summarizer = TRUE
    /\ running = FALSE
    /\ turns = 0
    /\ turn = None
    /\ sum_result = None
    /\ store_op = None
    /\ \E total \in Totals, budget \in Budgets, ratio \in Ratios : pure_call = PureCall("should_summarize", <<total, budget, ratio>>, FALSE, FALSE)
    /\ LoaderIdle

\* summarizer.should_summarize(total_tokens, max_tokens, threshold_ratio)
ShouldSummarizeCall ==
    /\ ~pure_call.done
    /\ pure_call' = [pure_call EXCEPT !.done = TRUE, !.result = should_summarize_ratio(pure_call.args[1], pure_call.args[2], pure_call.args[3])]
    /\ UNCHANGED <<history_manager, files, now, next_uuid, current_config, summarizer, running, turns, turn, sum_result, store_op, loader_vars>>

ThresholdNext == ShouldSummarizeCall

ThresholdSpec == ThresholdInit /\ [][ThresholdNext]_vars

(***************************************************************************)
(* ParseSpec: _parse_token_value applied to every bounded input.           *)
(***************************************************************************)
\* Characters of a max_tokens value.
TokenChars == {"6", "4", "K", "k", " ", "i", "n", "f"}

\* Every text of at most n characters.
RECURSIVE TextsUpTo(_)
TextsUpTo(n) == IF n = 0 THEN {<<>>} ELSE LET shorter == TextsUpTo(n - 1) IN shorter \cup {Append(text, c) : text \in shorter, c \in TokenChars}

\* str.upper()
UpperChar(c) == CASE c = "k" -> "K" [] c = "i" -> "I" [] c = "n" -> "N" [] c = "f" -> "F" [] OTHER -> c

Upper(text) == [i \in 1..Len(text) |-> UpperChar(text[i])]

\* A non-empty run of decimal digits and the number it writes.
IsDigits(text) == text # <<>> /\ \A i \in 1..Len(text) : text[i] \in {"6", "4"}

DigitValue(c) == IF c = "6" THEN 6 ELSE 4

RECURSIVE DigitsValue(_)
DigitsValue(text) == IF text = <<>> THEN 0 ELSE 10 * DigitsValue(SubSeq(text, 1, Len(text) - 1)) + DigitValue(text[Len(text)])

\* The outcome of a call or a conversion: a value, or an exception.
Value(v) == [raised |-> FALSE, value |-> v]

Raised(error) == [raised |-> TRUE, error |-> error]

\* The float infinity.
Infinity == [inf |-> TRUE]

\* float(text) of an upper-case text: surrounding blanks are ignored, digits
\* give their number, INF gives infinity, anything else is a ValueError.
float(text) ==
    LET u == Strip(text)
    IN  IF IsDigits(u) THEN Value([inf |-> FALSE, number |-> DigitsValue(u)])
        ELSE IF u = <<"I", "N", "F">> THEN Value(Infinity)
        ELSE Raised("ValueError")

\* int(number * 1000) of a float: infinity is an OverflowError.
IntOfThousand(f) == IF f.inf THEN Raised("OverflowError") ELSE Value(f.number * 1000)

\* int(text): surrounding blanks are ignored, digits give their number,
\* anything else is a ValueError.
int(text) ==
    LET u == Strip(text)
    IN  IF IsDigits(u) THEN Value(DigitsValue(u)) ELSE Raised("ValueError")

\* except ValueError: return default_value; any other exception propagates.
ExceptValueError(outcome, default_value) ==
    IF outcome.raised /\ outcome.error = "ValueError" THEN Value(default_value) ELSE outcome

\* ChatTool._parse_token_value(token_input, default_value)
_parse_token_value(token_input, default_value) ==
    IF token_input = <<>> THEN Value(default_value)
    ELSE LET u == Upper(Strip(token_input))
         IN  IF u # <<>> /\ u[Len(u)] = "K"
             THEN LET number == float(SubSeq(u, 1, Len(u) - 1))
                  IN  ExceptValueError(IF number.raised THEN number ELSE IntOfThousand(number.value), default_value)
             ELSE ExceptValueError(int(u), default_value)

\* The defaults the callers pass.
TokenDefaults == {64000, 4000}

ParseInit ==
    /\ history_manager = None
    /\ files = <<>>
    /\ now = 0
    /\ next_uuid = 0
    /\ current_config = None
    /\ summarizer = FALSE
    /\ running = TRUE
    /\ turns = 0
    /\ turn = None
    /\ sum_result = None
    /\ store_op = None
    /\ \E text \in TextsUpTo(MaxTokenLen), default_value \in TokenDefaults : pure_call = PureCall("_parse_token_value", <<text, default_value>>, FALSE, None)
    /\ LoaderIdle

\* self._parse_token_value(token_input, default_value)
ParseTokenValueCall ==
    /\ ~pure_call.done
    /\ pure_call' = [pure_call EXCEPT !.done = TRUE, !.result = _parse_token_value(pure_call.args[1], pure_call.args[2])]
    /\ UNCHANGED <<history_manager, files, now, next_uuid, current_config, summarizer, running, turns, turn, sum_result, store_op, loader_vars>>

ParseNext == ParseTokenValueCall

ParseSpec == ParseInit /\ [][ParseNext]_vars

(***************************************************************************)
(* SummarizeSpec: summarize_messages applied once, by a direct caller that *)
(* installs a successful result, to every ledger of at most MaxInput       *)
(* messages: originals as add_message numbers them, and earlier summaries. *)
(***************************************************************************)
\* A summary left by an earlier compaction.
PriorSummary == _create_summary_message(<<"s">>, <<Message(MsgId(0), "original", 0, "user", <<"x", "a", "a", "a">>, 2)>>, 0, "deepseek-chat")

\* What one position of an input list may hold.
InputChoices == (Roles \X Contents) \cup {<<"summary">>}

\* The message a choice stands for at position i.
InputMessage(c, i) == IF c = <<"summary">> THEN PriorSummary ELSE Message(MsgId(i - 1), "original", 0, c[1], c[2], _count_tokens(c[2]))

\* The input list a tuple of choices stands for.
InputList(cs) == [i \in 1..Len(cs) |-> InputMessage(cs[i], i)]

\* A ledger holding the given messages.
LedgerOf(msgs) == [ChatHistory("Prompt_000", 0, 0) EXCEPT !.messages = msgs, !.total_tokens = SumTokens(msgs)]

SummarizeInit ==
    /\ \E n \in 0..MaxInput : \E cs \in [1..n -> InputChoices] : history_manager = LedgerOf(InputList(cs))
    /\ files = <<>>
    /\ now = 0
    /\ next_uuid = 1
    /\ current_config = None
    /\ summarizer = TRUE
    /\ running = FALSE
    /\ turns = 0
    /\ turn = None
    /\ sum_result = None
    /\ store_op = None
    /\ pure_call = None
    /\ LoaderIdle

\* summary_msg, new_messages = summarizer.summarize_messages(history.messages,
\* keep_recent); if summary_msg: install new_messages.
SummarizeCall ==
    /\ sum_result = None
    /\ \E keep_recent \in KeepRecents, reply \in SummaryReplies :
          LET result == summarize_messages(history_manager.messages, keep_recent, reply, now, history_manager.model)
          IN  /\ sum_result' = SumCall(history_manager, keep_recent, reply, result)
              /\ history_manager' = IF result.summary # None THEN InstallSummary(history_manager, result.messages) ELSE history_manager
    /\ UNCHANGED <<files, now, next_uuid, current_config, summarizer, running, turns, turn, store_op, pure_call, loader_vars>>

\* Time passes before the call: it is made in the second of the earlier
\* summary, or in a later one.
SummarizeTick == sum_result = None /\ Tick

SummarizeNext == SummarizeTick \/ SummarizeCall

SummarizeSpec == SummarizeInit /\ [][SummarizeNext]_vars

(***************************************************************************)
(* main.py: ChatTool, the conversation driver.                             *)
(***************************************************************************)
\* process_template(ensure_datetime_in_prompt(system_Prompt)): the system
\* prompt sent with every request.
SystemPrompt == <<"a", "a">>

\* keep_recent = 3 in process_message and handle_summary_command.
DriverKeepRecent == 3

\* Positional parameters summarize_messages declares besides self:
\* messages, keep_recent.
SummarizeParams == 2

\* Positional arguments both drivers pass: messages, keep_recent, max_tokens.
SummarizeCallArgs == 3

\* Python binds a call's positional arguments to the declared parameters; one
\* too many raises TypeError before the body runs.
CallBinds(nargs, nparams) == nargs <= nparams

\* self._parse_token_value(str(self.current_config.get('max_tokens', 4000)), 4000)
MaxTokensOf(config) == config.max_tokens

\* The deltas of a complete streamed reply, in order; a non-streaming call
\* returns their concatenation.
ReplyDeltas == <<<<"a">>, <<"b", "b">>>>

RECURSIVE Concat(_)
Concat(ds) == IF ds = <<>> THEN <<>> ELSE Head(ds) \o Concat(Tail(ds))

\* What the completion call of a turn does: it succeeds ("ok"), create()
\* raises ("call_raises"), the stream raises after `received` deltas
\* ("stream_raises"), or the user interrupts after `received` deltas
\* ("interrupt").
Outcome(kind, received) == [kind |-> kind, received |-> received]

Outcomes == {Outcome("ok", Len(ReplyDeltas)), Outcome("call_raises", 0)} \cup {Outcome(k, n) : k \in {"stream_raises", "interrupt"}, n \in 1..(Len(ReplyDeltas) - 1)}

Dispatched(status, text) == [status |-> status, text |-> text]

\* MarkdownRenderer.render_streaming_response: accumulates the deltas; an
\* Exception raised by the stream is caught and the text so far returned; a
\* KeyboardInterrupt is not an Exception and leaves the function.
render_streaming_response(outcome) ==
    IF outcome.kind = "interrupt" THEN Dispatched("interrupt", <<>>)
    ELSE Dispatched("ok", Concat(SubSeq(ReplyDeltas, 1, outcome.received)))

\* The loop of process_message for a stream without Markdown: an Exception
\* raised by the stream reaches the handler of process_message.
PlainStream(outcome) ==
    IF outcome.kind = "interrupt" THEN Dispatched("interrupt", <<>>)
    ELSE IF outcome.kind = "stream_raises" THEN Dispatched("exception", <<>>)
    ELSE Dispatched("ok", Concat(SubSeq(ReplyDeltas, 1, outcome.received)))

\* Step 3 of process_message: the completion call and the reading of its reply.
Dispatch(config, outcome) ==
    IF outcome.kind = "call_raises" THEN Dispatched("exception", <<>>)
    ELSE IF config.stream THEN (IF config.markdown THEN render_streaming_response(outcome) ELSE PlainStream(outcome))
    ELSE IF outcome.kind = "interrupt" THEN Dispatched("interrupt", <<>>)
    ELSE Dispatched("ok", Concat(ReplyDeltas))

\* What process_message leaves: the ledger, the store, the steps it took, how
\* it ended ("done", "error": an Exception caught and reported,
\* "interrupt": a KeyboardInterrupt passed on to the caller), the request sent.
Processed(h, fs, steps, status, request) == [h |-> h, fs |-> fs, steps |-> steps, status |-> status, request |-> request]

\* Steps 5 and 6 of process_message, after the assistant reply was appended.
SummarizeAndPersist(h, fs, config, summ, sreply, write_ok, t, steps, request) ==
    LET checked == steps \o <<"summarize_check">>
        result == summarize_messages(h.messages, DriverKeepRecent, sreply, t, config.model)
        h3 == IF result.summary # None THEN InstallSummary(h, result.messages) ELSE h
    IN  IF summ /\ config.summary /\ should_summarize(h.total_tokens, MaxTokensOf(config))
        THEN IF CallBinds(SummarizeCallArgs, SummarizeParams)
             THEN Processed(h3, save_to_file(fs, h3, t, write_ok), checked \o <<"summarize", "persist">>, "done", request)
             ELSE Processed(h, fs, checked \o <<"summarize">>, "error", request)
        ELSE Processed(h, save_to_file(fs, h, t, write_ok), checked \o <<"persist">>, "done", request)

\* ChatTool.process_message, with a profile loaded.
process_message(h, fs, config, summ, user_input, outcome, sreply, write_ok, t) ==
    LET h1 == IF h # None THEN add_message(h, "user", user_input, "original", t) ELSE h
        s1 == IF h # None THEN <<"user_append">> ELSE <<>>
        request == IF h # None THEN get_messages_for_api(h1) ELSE <<[role |-> "system", content |-> SystemPrompt], [role |-> "user", content |-> user_input]>>
        s3 == s1 \o <<"request_build", "dispatch">>
        d == Dispatch(config, outcome)
    IN  IF d.status = "interrupt" THEN Processed(h1, fs, s3, "interrupt", request)
        ELSE IF d.status = "exception" THEN Processed(h1, fs, s3, "error", request)
        ELSE IF h = None THEN Processed(h1, fs, s3, "done", request)
        ELSE SummarizeAndPersist(add_message(h1, "assistant", d.text, "original", t), fs, config, summ, sreply, write_ok, t, s3 \o <<"assistant_append">>, request)

\* What handle_summary_command leaves: the ledger, the store, the
\* summarizer, and how it ended.
SummaryHandled(h, fs, summ, status) == [h |-> h, fs |-> fs, summarizer |-> summ, status |-> status]

\* sum_result of a /summary command.
SummaryCommandRecord(before, confirm, reply, status) == [before |-> before, confirm |-> confirm, reply |-> reply, status |-> status]

\* ChatTool.handle_summary_command; confirm is whether the user answers the
\* confirmation with y, yes or an equivalent.
handle_summary_command(h, fs, config, summ, confirm, sreply, write_ok, t) ==
    IF h = None THEN SummaryHandled(h, fs, summ, "no_history")
    ELSE IF Len(h.messages) <= 4 THEN SummaryHandled(h, fs, summ, "insufficient")
    ELSE IF ~confirm THEN SummaryHandled(h, fs, summ, "cancelled")
    ELSE IF ~CallBinds(SummarizeCallArgs, SummarizeParams) THEN SummaryHandled(h, fs, TRUE, "error")
    ELSE LET result == summarize_messages(h.messages, DriverKeepRecent, sreply, t, config.model)
             h2 == InstallSummary(h, result.messages)
         IN  IF result.summary # None
             THEN SummaryHandled(h2, save_to_file(fs, h2, t, write_ok), TRUE, "completed")
             ELSE SummaryHandled(h, fs, TRUE, "failed")

\* The profiles of the profile store: the fields the driver reads.
Profiles == {[id |-> "Prompt_000", model |-> "deepseek-chat", history |-> h, summary |-> s, stream |-> st, markdown |-> md, max_tokens |-> mt] : h \in BOOLEAN, s \in BOOLEAN, st \in BOOLEAN, md \in BOOLEAN, mt \in {5}}

\* Texts the user types (never blank: the loop rejects blank input).
UserInputs == {<<"u", "u", "u">>}

\* A ledger created without its system message.
NewLedgerEmpty(config, t, uuid) == [ChatHistory(config.id, t, uuid) EXCEPT !.model = config.model]

\* The ledger load_config creates for a profile with history.
NewLedger(config, t, uuid) == add_message([ChatHistory(config.id, t, uuid) EXCEPT !.model = config.model], "system", SystemPrompt, "original", t)

\* An end of the loop that saves nothing.
SaveOnExitNothing(fs, h, t, write_ok) == fs

\* The save the end of the loop makes, as store_op records it.
ExitSave(h, t, write_ok) == IF h # None THEN StoreOp("save", write_ok, <<>>, _get_history_filename(h, t), FALSE) ELSE None

\* run_interactive_mode: on KeyboardInterrupt or EOFError the ledger, if
\* any, is saved and the loop ends.
SaveOnExit(fs, h, t, write_ok) == IF h # None THEN save_to_file(fs, h, t, write_ok) ELSE fs

\* Whether step s is among the steps taken.
Took(steps, s) == \E i \in 1..Len(steps) : steps[i] = s

\* turn: the process_message call the last step made, if it made one; sreply
\* is what the model answers to a summarization request of that turn.
TurnRecord(before, files_before, user_input, outcome, sreply, processed) == [before |-> before, files_before |-> files_before, user_input |-> user_input, outcome |-> outcome, sreply |-> sreply, steps |-> processed.steps, status |-> processed.status, request |-> processed.request]

Init ==
    /\ history_manager = None
    /\ files = <<>>
    /\ now = 0
    /\ next_uuid = 0
    /\ current_config = None
    /\ summarizer = FALSE
    /\ running = TRUE
    /\ turns = 0
    /\ turn = None
    /\ sum_result = None
    /\ store_op = None
    /\ pure_call = None
    /\ LoaderIdle

\* ChatTool.load_config, at startup and on /config switch, for a profile
\* whose API validates (otherwise it returns False and changes nothing).
LoadConfig ==
    /\ running
    /\ \E config \in Profiles :
          /\ config.history => next_uuid < MaxSessions
          /\ current_config' = config
          /\ history_manager' = IF config.history THEN NewLedger(config, now, next_uuid) ELSE history_manager
          /\ next_uuid' = IF config.history THEN next_uuid + 1 ELSE next_uuid
          /\ summarizer' = IF config.summary /\ config.history THEN TRUE ELSE summarizer
    /\ turn' = None
    /\ store_op' = None
    /\ sum_result' = None
    /\ UNCHANGED <<files, now, running, turns, pure_call, loader_vars>>

\* One pass of the loop of run_interactive_mode with a message typed:
\* process_message, and the loop's handler if it is interrupted.
Turn ==
    /\ running
    /\ current_config # None
    /\ turns < MaxTurns
    /\ turns' = turns + 1
    /\ \E user_input \in UserInputs, outcome \in Outcomes, sreply \in SummaryReplies, write_ok \in BOOLEAN :
          LET p == process_message(history_manager, files, current_config, summarizer, user_input, outcome, sreply, write_ok, now)
          IN  /\ outcome.kind = "stream_raises" => current_config.stream
              /\ sreply # Raises => Took(p.steps, "summarize")
              /\ history_manager' = p.h
              /\ files' = IF p.status = "interrupt" THEN SaveOnExit(p.fs, p.h, now, write_ok) ELSE p.fs
              /\ running' = (p.status # "interrupt")
              /\ turn' = TurnRecord(history_manager, files, user_input, outcome, sreply, p)
              /\ store_op' = IF p.status = "interrupt" THEN ExitSave(p.h, now, write_ok) ELSE None
    /\ sum_result' = None
    /\ UNCHANGED <<now, next_uuid, current_config, summarizer, pure_call, loader_vars>>

\* The /new command.
NewCommand ==
    /\ running
    /\ current_config # None
    /\ history_manager # None
    /\ next_uuid < MaxSessions
    /\ \E write_ok \in BOOLEAN :
          /\ files' = start_new_session_files(files, history_manager, now, write_ok)
          /\ store_op' = StoreOp("start_new_session", write_ok, <<>>, _get_history_filename(history_manager, now), FALSE)
    /\ history_manager' = add_message(start_new_session(history_manager, now, next_uuid), "system", SystemPrompt, "original", now)
    /\ next_uuid' = next_uuid + 1
    /\ turn' = None
    /\ sum_result' = None
    /\ UNCHANGED <<now, current_config, summarizer, running, turns, pure_call, loader_vars>>

\* The /exit command, and KeyboardInterrupt or EOFError at the prompt.
Exit ==
    /\ running
    /\ current_config # None
    /\ \E write_ok \in BOOLEAN :
          /\ files' = SaveOnExit(files, history_manager, now, write_ok)
          /\ store_op' = ExitSave(history_manager, now, write_ok)
    /\ running' = FALSE
    /\ turn' = None
    /\ sum_result' = None
    /\ UNCHANGED <<history_manager, now, next_uuid, current_config, summarizer, turns, pure_call, loader_vars>>


\* The /summary command.  sum_result records the call: the ledger before,
\* the user's answer to the confirmation, what the model would answer, and
\* how the command ended.
SummaryCommand ==
    /\ running
    /\ current_config # None
    /\ \E confirm \in BOOLEAN, sreply \in SummaryReplies, write_ok \in BOOLEAN :
          LET r == handle_summary_command(history_manager, files, current_config, summarizer, confirm, sreply, write_ok, now)
          IN  /\ sreply # Raises => r.status \in {"error", "completed", "failed"}
              /\ ~write_ok => r.status = "completed"
              /\ history_manager' = r.h
              /\ files' = r.fs
              /\ summarizer' = r.summarizer
              /\ sum_result' = SummaryCommandRecord(history_manager, confirm, sreply, r.status)
              /\ store_op' = IF r.status = "completed" THEN StoreOp("save", write_ok, <<>>, _get_history_filename(r.h, now), FALSE) ELSE None
    /\ turn' = None
    /\ UNCHANGED <<now, next_uuid, current_config, running, turns, pure_call, loader_vars>>

Next == LoadConfig \/ Turn \/ NewCommand \/ SummaryCommand \/ Exit

Spec == Init /\ [][Next]_vars

(***************************************************************************)
(* Properties of the ledger (LedgerSpec).                                  *)
(***************************************************************************)
\* C1: after add_message, remove_old_messages and start_new_session the
\* ledger's total_tokens is the sum of the tokens fields of its messages.
C1_TotalTokensIsSum == history_manager.total_tokens = SumTokens(history_manager.messages)

\* All three operations have acted: a second session holds messages that
\* weigh something, and a compaction has removed the one numbered 0.
C1_Witness ==
    /\ next_uuid > 1
    /\ history_manager.messages # <<>>
    /\ history_manager.messages[1].id # MsgId(0)
    /\ history_manager.total_tokens > 0

\* C7: the ids of the messages of a ledger are pairwise distinct, after
\* appends and after compactions.
C7_UniqueIds == \A i, j \in 1..Len(history_manager.messages) : i # j => history_manager.messages[i].id # history_manager.messages[j].id

\* The step is a storage call of the given kind.
StoreStep(op) == store_op' # None /\ store_op'.op = op

\* C14: start_new_session persists the current state first when and only
\* when messages is non-empty (the file holds the old session id and the old
\* messages); afterwards the ledger has a fresh session_id, no messages and
\* total_tokens = 0.
C14_NewSessionPersistsFirst ==
    [][StoreStep("start_new_session") =>
            LET name == _get_history_filename(history_manager, now)
            IN  /\ (history_manager.messages # <<>> /\ store_op'.ok) =>
                      /\ files' = (name :> HistoryData(history_manager)) @@ files
                      /\ files'[name].session_id = history_manager.session_id
                      /\ files'[name].messages = history_manager.messages
                /\ (history_manager.messages = <<>> \/ ~store_op'.ok) => files' = files
                /\ history_manager'.session_id # history_manager.session_id
                /\ \A k \in DOMAIN files' : k[3] # history_manager'.session_id
                /\ history_manager'.messages = <<>>
                /\ history_manager'.total_tokens = 0]_vars

\* A session with messages was restarted and its file written.
C14_Witness ==
    /\ store_op # None
    /\ store_op.op = "start_new_session"
    /\ store_op.ok
    /\ store_op.file \in DOMAIN files
    /\ files[store_op.file].messages # <<>>
    /\ history_manager.messages = <<>>

(***************************************************************************)
(* Properties of should_summarize (ThresholdSpec).                         *)
(***************************************************************************)
\* The least whole number of tokens that is at least budget * ratio.
LeastAtThreshold(budget, ratio) == (budget * ratio[1] + ratio[2] - 1) \div ratio[2]

\* C17: should_summarize returns true exactly when total_tokens >= budget *
\* threshold_ratio, and changes nothing; with ratio 0.8 and budget 1000 it is
\* true for 800 and false for 799.
C17_ThresholdExact ==
    [][(~pure_call.done /\ pure_call'.done) =>
            LET total == pure_call.args[1]
                budget == pure_call.args[2]
                ratio == pure_call.args[3]
            IN  /\ pure_call'.result = (total >= LeastAtThreshold(budget, ratio))
                /\ (budget = 1000 /\ ratio = <<4, 5>> /\ total = 800) => pure_call'.result
                /\ (budget = 1000 /\ ratio = <<4, 5>> /\ total = 799) => ~pure_call'.result
                /\ UNCHANGED <<history_manager, files, summarizer>>]_vars

\* The call made exactly at the threshold of the example.
C17_Witness == pure_call.done /\ pure_call.args = <<800, 1000, DefaultRatio>> /\ pure_call.result

(***************************************************************************)
(* Properties of the session files (StoreSpec).                            *)
(***************************************************************************)
\* C12: save_to_file followed by load_from_file with the ledger's exact
\* session id reproduces the same messages and the same total_tokens, also
\* when the session was persisted several times before.
C12_RoundTrip ==
    [][(JustSaved(store_op) /\ StoreStep("load") /\ store_op'.ident = SessionText(history_manager.session_id)) =>
            /\ store_op'.ok
            /\ history_manager'.messages = history_manager.messages
            /\ history_manager'.total_tokens = history_manager.total_tokens]_vars

\* C13: after load_from_file returns true, whatever the stored file holds,
\* total_tokens is the sum of the tokens of the loaded messages.
C13_LoadedTotalIsSum == (store_op # None /\ store_op.op = "load" /\ store_op.ok) => history_manager.total_tokens = SumTokens(history_manager.messages)

\* C16: save_to_file returns to its caller with true or false and leaves the
\* ledger as it was; when it returns true the file of the session holds the
\* whole current ledger, whether or not an earlier save failed.
C16_SaveLeavesLedger ==
    [][StoreStep("save") =>
            /\ history_manager' = history_manager
            /\ store_op'.ok \in BOOLEAN
            /\ store_op'.ok => (store_op'.file \in DOMAIN files' /\ files'[store_op'.file] = HistoryData(history_manager))]_vars

\* A save of a ledger with messages failed: the session has no file yet.
C16_Witness ==
    /\ store_op # None
    /\ store_op.op = "save"
    /\ ~store_op.ok
    /\ history_manager.messages # <<>>
    /\ store_op.file \notin DOMAIN files

(***************************************************************************)
(* Properties of summarize_messages (SummarizeSpec).                       *)
(***************************************************************************)
NotOriginalSystem(m) == ~(m.role = "system" /\ m.type # "summary")

\* The messages of a list that are not original system messages.
OtherMessages(msgs) == SelectSeq(msgs, NotOriginalSystem)

\* The model's answer is usable: it did not raise and its text is not blank.
NonEmptyReply(reply) == ~reply.raises /\ Strip(reply.text) # <<>>

\* C6: when the model raises, or answers with empty text, summarize_messages
\* returns (None, the input list unchanged) and the ledger stays as it was.
C6_FailedSummaryChangesNothing ==
    (sum_result # None /\ ~NonEmptyReply(sum_result.reply)) =>
        /\ sum_result.result.summary = None
        /\ sum_result.result.messages = sum_result.before.messages
        /\ history_manager = sum_result.before

\* A call that reached the model, which raised.
C6_Witness == sum_result # None /\ sum_result.result.called /\ sum_result.reply.raises

\* C8: when keep_recent is at least the number of messages that are not
\* original system messages, the call is a no-op and the model is not called.
C8_NoOpWhenKeepCoversRest ==
    (sum_result # None /\ sum_result.keep_recent >= Len(OtherMessages(sum_result.before.messages))) =>
        /\ sum_result.result.summary = None
        /\ sum_result.result.messages = sum_result.before.messages
        /\ ~sum_result.result.called
        /\ history_manager = sum_result.before

\* The list is long enough to pass the first guard, so that the count of the
\* other messages decides.
C8_Witness ==
    /\ sum_result # None
    /\ sum_result.keep_recent >= Len(OtherMessages(sum_result.before.messages))
    /\ Len(sum_result.before.messages) > sum_result.keep_recent + 1
    /\ NonEmptyReply(sum_result.reply)

\* C9: whenever the rest holds more than keep_recent messages and the model
\* returns non-empty text, exactly the oldest len(rest) - keep_recent messages
\* of the rest are summarized, with or without a system message in the input.
C9_SummarizesOldest ==
    LET rest == OtherMessages(sum_result.before.messages)
        oldest == SubSeq(rest, 1, Len(rest) - sum_result.keep_recent)
    IN  (sum_result # None /\ Len(rest) > sum_result.keep_recent /\ NonEmptyReply(sum_result.reply)) =>
            /\ sum_result.result.summary # None
            /\ sum_result.result.summary.summary_metadata.summarized_message_ids = [i \in 1..Len(oldest) |-> oldest[i].id]

\* C10: a successful call returns the original system messages, then the new
\* summary, then the last keep_recent messages of the rest:
\* len(system_messages) + 1 + keep_recent messages in all.
C10_ResultShape ==
    (sum_result # None /\ sum_result.result.summary # None) =>
        LET input == sum_result.before.messages
            sys == SelectSeq(input, IsOriginalSystem)
            rest == OtherMessages(input)
            k == sum_result.keep_recent
            out == sum_result.result.messages
        IN  /\ out = sys \o <<sum_result.result.summary>> \o SubSeq(rest, Len(rest) - k + 1, Len(rest))
            /\ Len(out) = Len(sys) + 1 + k
            /\ out[Len(sys) + 1].type = "summary"
            /\ \A i \in 1..Len(sys) : out[i] = sys[i]
            /\ history_manager.messages = out

\* A successful call on a list with a system message, an earlier summary and
\* messages to keep.
C10_Witness ==
    /\ sum_result # None
    /\ sum_result.result.summary # None
    /\ sum_result.keep_recent > 0
    /\ SelectSeq(sum_result.before.messages, IsOriginalSystem) # <<>>
    /\ \E i \in 1..Len(sum_result.before.messages) : sum_result.before.messages[i].type = "summary"

C18_RemovedMessagesInTranscript ==
    (sum_result # None /\ sum_result.result.summary # None) =>
        \A i \in 1..Len(sum_result.before.messages) :
            LET m == sum_result.before.messages[i]
            IN  (\A j \in 1..Len(sum_result.result.messages) : sum_result.result.messages[j].id # m.id) =>
                    \E e \in 1..Len(sum_result.result.transcript) : sum_result.result.transcript[e] = [timestamp |-> m.timestamp, role |-> m.role, content |-> m.content]

\* C19: the summary message created on success has type summary and role
\* system; its metadata holds the sum of the tokens of the summarized messages
\* and their ids in their original order; its own tokens equal the metadata's
\* summarized token count; compression_ratio is 0 when the original count is 0.
C19_SummaryMetadata ==
    (sum_result # None /\ sum_result.result.summary # None) =>
        LET created == sum_result.result.summary
            meta == created.summary_metadata
            rest == OtherMessages(sum_result.before.messages)
            summarized == SubSeq(rest, 1, Len(rest) - sum_result.keep_recent)
        IN  /\ created.type = "summary"
            /\ created.role = "system"
            /\ meta.original_tokens = SumTokens(summarized)
            /\ meta.summarized_message_ids = [i \in 1..Len(summarized) |-> summarized[i].id]
            /\ created.tokens = meta.summarized_tokens
            /\ meta.original_tokens = 0 => meta.compression_ratio = 0

\* A summary of messages that weigh nothing, next to messages that are kept.
C19_Witness ==
    /\ sum_result # None
    /\ sum_result.result.summary # None
    /\ sum_result.result.summary.summary_metadata.original_tokens = 0
    /\ Len(sum_result.result.summary.summary_metadata.summarized_message_ids) > 1
    /\ sum_result.keep_recent > 0

(***************************************************************************)
(* Properties of a turn of the driver (Spec).                              *)
(***************************************************************************)
\* The last step made a turn with an active ledger.
LedgerTurn == turn # None /\ turn.before # None

\* C2: on every turn whose completion call succeeds the ledger is persisted
\* after the assistant reply is appended, threshold turns included.
C2_SuccessfulTurnPersists ==
    (LedgerTurn /\ turn.outcome.kind = "ok") =>
        \E i, j \in 1..Len(turn.steps) : i < j /\ turn.steps[i] = "assistant_append" /\ turn.steps[j] = "persist"

\* C3: when summarization is enabled, should_summarize is true, the ledger
\* holds more than 3 non-system messages and the model returns a non-empty
\* summary, the turn installs the result: the ledger holds the summary.
C3_SummaryInstalled ==
    (LedgerTurn /\ Took(turn.steps, "summarize") /\ NonEmptyReply(turn.sreply) /\ Len(OtherMessages(turn.before.messages)) + 2 > 3) =>
        \E i \in 1..Len(history_manager.messages) : history_manager.messages[i].type = "summary"

\* C4: when the completion call of a turn raises an exception (create()
\* raises, or the stream it returned raises while it is read), the error is
\* reported, no assistant message is appended, nothing is summarized or
\* persisted, the user message stays last in the ledger and the loop goes on.
C4_FailedCallLeavesUserMessage ==
    (turn # None /\ turn.outcome.kind \in {"call_raises", "stream_raises"}) =>
        /\ turn.status = "error"
        /\ ~Took(turn.steps, "assistant_append")
        /\ ~Took(turn.steps, "summarize_check")
        /\ ~Took(turn.steps, "persist")
        /\ files = turn.files_before
        /\ running
        /\ turn.before # None =>
              /\ Len(history_manager.messages) = Len(turn.before.messages) + 1
              /\ SubSeq(history_manager.messages, 1, Len(turn.before.messages)) = turn.before.messages
              /\ history_manager.messages[Len(history_manager.messages)].role = "user"
              /\ history_manager.messages[Len(history_manager.messages)].content = turn.user_input

\* C15: whenever the ledger of a session is discarded because a new session
\* begins (/new, or a profile is loaded or switched to), every message of the
\* discarded ledger is in the stored file of that session, unless the write
\* of the flush itself failed.
C15_DiscardedLedgerFlushed ==
    [][(history_manager # None /\ history_manager' # None /\ history_manager'.session_id # history_manager.session_id /\ ~(StoreStep("start_new_session") /\ ~store_op'.ok)) =>
            \E k \in DOMAIN files' : k[3] = history_manager.session_id /\ files'[k].messages = history_manager.messages]_vars

\* C5: when the user interrupts a streaming reply, the text received so far
\* is appended to the ledger as the assistant message.
C5_PartialReplyAppended ==
    (LedgerTurn /\ turn.outcome.kind = "interrupt" /\ current_config.stream) =>
        /\ history_manager.messages[Len(history_manager.messages)].role = "assistant"
        /\ history_manager.messages[Len(history_manager.messages)].content = Concat(SubSeq(ReplyDeltas, 1, turn.outcome.received))

\* C20: the history flag gates the ledger: when the loaded profile has
\* history=false no ledger is active, a turn sends the two-message request
\* and records and persists nothing; a summarizer is attached only when
\* history and summary are both true.
C20_HistoryFlagGatesLedger ==
    (current_config # None /\ ~current_config.history) =>
        /\ history_manager = None
        /\ ~summarizer
        /\ turn # None =>
              /\ turn.request = <<[role |-> "system", content |-> SystemPrompt], [role |-> "user", content |-> turn.user_input]>>
              /\ ~Took(turn.steps, "user_append")
              /\ ~Took(turn.steps, "persist")
              /\ files = turn.files_before

\* C21: when the loop is ended by a user interrupt, end of input or /exit
\* while a ledger is active, the ledger is saved before the process exits:
\* unless the write fails, the file of the session holds the whole ledger.
C21_LedgerSavedOnExit ==
    (~running /\ history_manager # None) =>
        /\ store_op # None
        /\ store_op.op = "save"
        /\ store_op.file = _get_history_filename(history_manager, now)
        /\ store_op.ok => (store_op.file \in DOMAIN files /\ files[store_op.file] = HistoryData(history_manager))

\* An interrupt in the middle of a turn: the saved ledger ends with the user
\* message of that turn.
C21_Witness ==
    /\ ~running
    /\ LedgerTurn
    /\ turn.status = "interrupt"
    /\ store_op # None
    /\ store_op.ok
    /\ files[store_op.file].messages[Len(history_manager.messages)].content = turn.user_input

(***************************************************************************)
(* Properties of LoaderSpec.                                               *)
(***************************************************************************)
\* A caller inside an entry point: past the acquire of _loader_lock and not
\* yet returned.
InEntry(c) == callers[c].pc \notin {"idle", "acquire"}

\* Every thread of the module: the callers and the animation threads alive.
LoaderThreads == {CallerId(c) : c \in Callers} \cup {Thread(t) : t \in DOMAIN threads}

\* The holders of the lock a thread is waiting for: empty when the thread
\* is not at an acquire or the lock is free.
WaitsFor(x) ==
    IF "caller" \in DOMAIN x
    THEN IF callers[x.caller].pc = "acquire" THEN _loader_lock \ {x}
         ELSE IF callers[x.caller].pc \in {"start_lock", "stop_lock", "update_lock"} THEN _global_loader._lock \ {x}
         ELSE {}
    ELSE IF x.thread \in DOMAIN threads /\ threads[x.thread].pc = "lock" THEN _global_loader._lock \ {x}
         ELSE {}

\* The thread's next step is enabled, or it waits for a lock whose holder's
\* next step is enabled, or whose holder waits for such a lock in turn.
CanProgress(x) ==
    \/ WaitsFor(x) = {}
    \/ \E h \in WaitsFor(x) :
        \/ WaitsFor(h) = {}
        \/ \E g \in WaitsFor(h) : WaitsFor(g) = {}

\* C22: start_loading, stop_loading and update_loading_message are
\* serialized by _loader_lock: under every interleaving of the callers and
\* the animation thread at most one caller is inside an entry point, the
\* lock is held exactly by that caller, at most one animation thread is
\* alive, and no thread waits for a lock in a cycle of waiting threads.
C22_EntryPointsSerialized ==
    /\ Cardinality({c \in Callers : InEntry(c)}) <= 1
    /\ _loader_lock = {CallerId(c) : c \in {d \in Callers : InEntry(d)}}
    /\ Cardinality(DOMAIN threads) <= 1
    /\ \A x \in LoaderThreads : CanProgress(x)

\* One caller waits for _loader_lock while another, inside
\* update_loading_message, waits for the loader's lock that the running
\* animation thread holds.
C22_Witness ==
    /\ \E c, d \in Callers :
        /\ callers[c].pc = "acquire"
        /\ callers[d].pc = "update_lock"
        /\ _loader_lock = {CallerId(d)}
    /\ \E t \in DOMAIN threads : threads[t].pc = "write" /\ _global_loader._lock = {Thread(t)}

(***************************************************************************)
(* Properties of StoreSpec: lookup and failure of load_from_file.          *)
(***************************************************************************)
\* The stored files whose name contains the identifier.
Matching(ident) == {k \in DOMAIN files : Contains(ident, FilenameText(k))}

\* The ledger holds what the file says.
HoldsFile(h, data) ==
    /\ h.messages = Get(data, "messages", <<>>)
    /\ h.total_tokens = Get(data, "total_tokens", 0)
    /\ h.model = Get(data, "model", "deepseek-chat")

\* C23 as stated: load_from_file with an identifier that does not end in
\* .json returns true with the content of a matching file whenever a stored
\* name contains the identifier, and false when none does.
C23_MatchAlwaysLoads ==
    [][(StoreStep("load") /\ ~EndsWithJson(store_op'.ident)) =>
            /\ (Matching(store_op'.ident) = {}) => ~store_op'.ok
            /\ (Matching(store_op'.ident) # {}) => store_op'.ok
            /\ store_op'.ok => /\ store_op'.file \in Matching(store_op'.ident)
                               /\ HoldsFile(history_manager', files[store_op'.file])]_vars

\* C23 amended: load_from_file with an identifier that does not end in
\* .json returns false when no stored name contains the identifier; when
\* some do, it opens one of them (the first that os.listdir yields), and
\* returns true with that file's content if the file holds a JSON object,
\* false if it does not.
C23_MatchLoadsWellFormed ==
    [][(StoreStep("load") /\ ~EndsWithJson(store_op'.ident)) =>
            /\ (Matching(store_op'.ident) = {}) => ~store_op'.ok
            /\ (Matching(store_op'.ident) # {} /\ \A k \in Matching(store_op'.ident) : files[k] # Corrupt) => store_op'.ok
            /\ (Matching(store_op'.ident) # {}) =>
                    /\ store_op'.file \in Matching(store_op'.ident)
                    /\ store_op'.ok = (files[store_op'.file] # Corrupt)
                    /\ store_op'.ok => HoldsFile(history_manager', files[store_op'.file])]_vars

\* A load by a fragment of the session id that two stored files contain
\* has returned true.
C23_Witness ==
    /\ store_op # None
    /\ store_op.op = "load"
    /\ store_op.ident = <<"sess", "_">>
    /\ store_op.ok
    /\ Cardinality(Matching(store_op.ident)) >= 2
    /\ HoldsFile(history_manager, files[store_op.file])

(***************************************************************************)
(* Properties of LedgerSpec: the fallback token count.                     *)
(***************************************************************************)
\* ceil(n / d) for a natural n and a positive d.
CeilDiv(n, d) == (n + d - 1) \div d

\* C24: when the encoder throws, the token count stored with a message is
\* ceil(len(text) / 4), also for a text whose length is a multiple of 4.
C24_FallbackIsCeiling ==
    \A i \in 1..Len(history_manager.messages) :
        LET m == history_manager.messages[i]
        IN  EncoderRaises(m.content) => m.tokens = CeilDiv(Len(m.content), 4)

(***************************************************************************)
(* Properties of ParseSpec.                                                *)
(***************************************************************************)
\* The text holds no digit.
NoDigit(text) == \A i \in 1..Len(text) : text[i] \notin {"6", "4"}

\* C25: _parse_token_value never raises; digits followed by K or k give a
\* thousand times their number ('64K' and '64k' give 64000), digits alone
\* give their number, and the empty text and every text without a digit
\* give the caller's default.
C25_ParseNeverRaises ==
    pure_call.done =>
        LET text == pure_call.args[1]
            default_value == pure_call.args[2]
            result == pure_call.result
        IN  /\ ~result.raised
            /\ IsDigits(text) => result.value = DigitsValue(text)
            /\ (Len(text) > 1 /\ IsDigits(SubSeq(text, 1, Len(text) - 1)) /\ text[Len(text)] \in {"K", "k"}) =>
                    result.value = 1000 * DigitsValue(SubSeq(text, 1, Len(text) - 1))
            /\ text = <<"6", "4", "K">> => result.value = 64000
            /\ text = <<"6", "4", "k">> => result.value = 64000
            /\ NoDigit(text) => result.value = default_value

(***************************************************************************)
(* Properties of Spec: the /summary command and the system prompt.         *)
(***************************************************************************)
\* C26: a /summary command on a ledger of more than 4 messages, confirmed
\* by the user and answered by the model with a non-empty summary, replaces
\* the ledger's messages by the compacted list, recomputes total_tokens and
\* persists the ledger, with or without a summarizer attached before.
C26_ManualSummaryInstalled ==
    (sum_result # None /\ sum_result.before # None /\ Len(sum_result.before.messages) > 4
            /\ sum_result.confirm /\ NonEmptyReply(sum_result.reply)) =>
        /\ \E i \in 1..Len(history_manager.messages) : history_manager.messages[i].type = "summary"
        /\ history_manager.total_tokens = SumTokens(history_manager.messages)
        /\ JustSaved(store_op) => files[store_op.file] = HistoryData(history_manager)
        /\ store_op # None

\* C27: whenever the interactive loop has a ledger, the ledger's first
\* message is the system prompt it was created with, an original message of
\* role system with the first id: after load_config, after /new, and after
\* every turn, failed turn and /summary command.
C27_FirstMessageIsSystemPrompt ==
    history_manager # None =>
        /\ history_manager.messages # <<>>
        /\ history_manager.messages[1].role = "system"
        /\ history_manager.messages[1].type = "original"
        /\ history_manager.messages[1].content = SystemPrompt
        /\ history_manager.messages[1].id = MsgId(0)

\* A second session, begun by /new or by a second load_config, after a
\* turn whose completion call failed and left the user message behind.
C27_Witness ==
    /\ LedgerTurn
    /\ turn.outcome.kind = "call_raises"
    /\ history_manager.session_id = _generate_session_id(now, 1)
    /\ Len(history_manager.messages) = 2
    /\ history_manager.messages[1].content = SystemPrompt
    /\ history_manager.messages[2].role = "user"

(***************************************************************************)
(* Properties of StoreSpec: one file per session, failed loads.            *)
(***************************************************************************)
\* C28: every save of one session goes to the same file, so the store never
\* holds two files whose names carry the same config id and session id.
C28_OneFilePerSession ==
    \A k1, k2 \in DOMAIN files : (k1[2] = k2[2] /\ k1[3] = k2[3]) => k1 = k2

\* C29: a load_from_file that returns false, because no stored name matches
\* or because the file it opened is unreadable or malformed, leaves model,
\* created_at, session_id, config_id, total_tokens and messages of the
\* ledger as they were.
C29_FailedLoadChangesNothing ==
    [][(StoreStep("load") /\ ~store_op'.ok) =>
            /\ history_manager'.model = history_manager.model
            /\ history_manager'.created_at = history_manager.created_at
            /\ history_manager'.session_id = history_manager.session_id
            /\ history_manager'.config_id = history_manager.config_id
            /\ history_manager'.total_tokens = history_manager.total_tokens
            /\ history_manager'.messages = history_manager.messages]_vars

\* A load has opened a malformed file and returned false, with a ledger
\* that holds a message.
C29_Witness ==
    /\ store_op # None
    /\ store_op.op = "load"
    /\ ~store_op.ok
    /\ store_op.file \in DOMAIN files
    /\ files[store_op.file] = Corrupt
    /\ history_manager.messages # <<>>
    /\ history_manager.total_tokens > 0

(***************************************************************************)
(* Properties of SummarizeSpec: the frame of a compaction.                 *)
(***************************************************************************)
\* Two messages with the same id, role, content, timestamp and tokens.
SameMessage(a, b) ==
    /\ a.id = b.id
    /\ a.role = b.role
    /\ a.content = b.content
    /\ a.timestamp = b.timestamp
    /\ a.tokens = b.tokens

====
